---- MODULE Spec2Model ----
(***************************************************************************)
(* Working-memory engine of the aloop agent: the MemoryManager            *)
(* (src/memory/manager.py) over the ShortTermMemory buffer                 *)
(* (src/memory/short_term.py).                                             *)
(*                                                                         *)
(* asyncio is single-threaded and cooperative: a coroutine runs atomically *)
(* between two awaits.  add_message runs atomically up to the await of the *)
(* summariser inside compress(); the code after that await (the splice)    *)
(* runs atomically when the summariser call returns.  Every such segment   *)
(* is one action.  Other coroutines may run while a compression awaits.    *)
(* SpecEnsure also follows the await of create_session() in                *)
(* _ensure_session, where add_message calls of a new coordinator overlap.  *)
(*                                                                         *)
(* memory/compressor.py, memory/token_tracker.py and memory/store.py are   *)
(* not part of the sources at hand; CompressorMessages, FindToolPairs,     *)
(* Estimate, the tracker ledger and the session store follow the           *)
(* specification text (sections 4.1, 4.5 and 4.6).                         *)
(*                                                                         *)
(* The long-term memory is modelled beside it: the parsing of the          *)
(* consolidation response (src/memory/long_term/consolidator.py) and the   *)
(* git-backed store (src/memory/long_term/store.py) with one external      *)
(* editor.  Its caller, the LongTermMemoryManager, is not part of the      *)
(* sources either and follows sections 4.7, 5 and 7.  The keyword memory   *)
(* of the agent tools (src/memory/long_term.py) is modelled with its       *)
(* overlapping save() calls, its search and its score.                     *)
(***************************************************************************)
EXTENDS Integers, Sequences, FiniteSets, TLC

VARIABLES
    short_term,                 \* ShortTermMemory.messages
    system_messages,            \* MemoryManager.system_messages
    current_tokens,             \* MemoryManager.current_tokens
    was_compressed_last_iteration,
    last_compression_savings,
    compression_count,
    last_api_context_tokens,    \* <<>> is None, <<x>> is the int x
    estimated_delta_tokens,
    token_tracker,              \* the TokenTracker ledger
    session_id,                 \* <<>> is None, <<n>> is the id of the n-th session created
    session_created,            \* MemoryManager._session_created
    store,                      \* the session store behind MemoryManager._store
    tasks,                      \* compressions awaiting the summariser, oldest first
    agent,                      \* the caller: which message it adds next
    next_id,                    \* identity of the next message object
    n_system,                   \* system messages added so far
    n_manual,                   \* direct compress() calls made so far
    compressed_in,              \* history: ids given to a summariser call that succeeded
    sys_log,                    \* history: system messages passed to add_message since reset
    last,                       \* history: the operation that ran last, with its inputs
    long_term,                  \* the long-term memory: files, repository, instances, callers
    bound,                      \* the bounds and the configuration of this behaviour
    arg,                        \* input of the function or constructor under check, or history
    ret                         \* its result

vars == <<short_term, system_messages, current_tokens, was_compressed_last_iteration,
          last_compression_savings, compression_count, last_api_context_tokens,
          estimated_delta_tokens, token_tracker, session_id, session_created, store,
          tasks, agent, next_id, n_system, n_manual,
          compressed_in, sys_log, last, long_term, bound, arg, ret>>

\* The coordinator's own fields (everything reset() or a splice can touch).
coordinator == <<short_term, system_messages, current_tokens, was_compressed_last_iteration,
                 last_compression_savings, compression_count, last_api_context_tokens,
                 estimated_delta_tokens, token_tracker>>

\* The session the coordinator writes to.
session == <<session_id, session_created, store>>

-----------------------------------------------------------------------------
(* Bounds of the model *)

\* Spec: add_message racing with compressions in flight.
MaxMsgs == 6
MaxSys == 2
MaxInFlight == 2
MaxCalls == 1
\* SpecOps: every operation of the coordinator, one compression at a time.
OpsMaxMsgs == 5
OpsMaxSys == 2
OpsMaxInFlight == 1
OpsMaxCalls == 1
OpsMaxManual == 1
\* SpecSession: a session saved and loaded.
SessionMaxMsgs == 4
SessionMaxSys == 1
SessionMaxInFlight == 1
SessionMaxCalls == 1
\* SpecTurn: agent turns with up to two tool calls, interrupted and rolled back.
TurnMaxMsgs == 5
TurnMaxSys == 1
TurnMaxInFlight == 1
TurnMaxCalls == 2
\* Pure functions over message lists.
MaxLen == 5
\* SpecBuffer: the short-term buffer on its own, filled beyond its cap.
BufferMaxLen == 8
\* SpecLongTerm: edits and commits made by the external editor.
MaxEdits == 1
MaxCommits == 2
\* SpecParse: the items of a category in a consolidation response.
MaxItems == 2
\* SpecScenario: five messages added one after the other, each add awaited.
ScenarioMsgs == 5
ScenarioInFlight == 1
ScenarioMaxTail == 4

(* Configuration (environment knobs; small values so that every urgency    *)
(* level is reached within the bounds)                                     *)

MEMORY_ENABLED == TRUE
MEMORY_SHORT_TERM_SIZE == 6
MEMORY_COMPRESSION_THRESHOLD == 7
SOFT_RATIO_NUM == 6
SOFT_RATIO_DEN == 10
PreservedTail == 2

\* The configuration of the compression scenario: N_cap, H and the estimate of
\* each of the five messages (150 tokens in all).
ScenarioCap == 4
ScenarioThreshold == 100
ScenarioWeight == 30

-----------------------------------------------------------------------------
(* Values *)

NONE == "none"
SOFT == "soft"
HARD == "hard"
EMERGENCY == "emergency"

DELETION == "deletion"
SLIDING_WINDOW == "sliding_window"
SELECTIVE == "selective"

\* An LLMMessage.  id stands for the content (every message has its own),
\* calls for the ids of tool_calls, tcid for tool_call_id (0 is None);
\* empty_calls tells tool_calls = [] from tool_calls = None when there are no calls.
Message(id, role, calls, tcid) ==
    [id |-> id, role |-> role, calls |-> calls, tcid |-> tcid, summary |-> FALSE,
     empty_calls |-> FALSE]

\* The message the compressor builds from the summary text.
SummaryMessage ==
    [id |-> 0, role |-> "user", calls |-> {}, tcid |-> 0, summary |-> TRUE,
     empty_calls |-> FALSE]

NoMsg == [id |-> 0, role |-> "none", calls |-> {}, tcid |-> 0, summary |-> FALSE,
          empty_calls |-> FALSE]

\* A compression in flight: what compress() holds across the await (partial,
\* snap, split, strategy), and as history the messages appended behind the
\* snapshot (late) and whether it was started right after a failed one (retry).
NoTask == [partial |-> FALSE, snap |-> <<>>, split |-> 0, strategy |-> "none",
           late |-> <<>>, retry |-> FALSE]

\* actual_tokens: None, the empty dict (false in `if actual_tokens:`), or
\* {"input": in, "output": out}.
NoActual == [kind |-> "none", in |-> 0, out |-> 0]
EmptyDict == [kind |-> "empty", in |-> 0, out |-> 0]
Actual(i, o) == [kind |-> "pair", in |-> i, out |-> o]

Ids(msgs) == {msgs[i].id : i \in 1..Len(msgs)}

Min(a, b) == IF a < b THEN a ELSE b
Max(a, b) == IF a > b THEN a ELSE b

-----------------------------------------------------------------------------
(* TokenTracker *)

\* count_message_tokens: a tool result counts twice an ordinary message of
\* bound.weight tokens; the summary text is short.
Estimate(m) ==
    IF m.summary THEN 1
    ELSE IF m.role = "tool" THEN 2 * bound.weight ELSE bound.weight

RECURSIVE SumEstimates(_)
SumEstimates(msgs) ==
    IF msgs = <<>> THEN 0 ELSE Estimate(Head(msgs)) + SumEstimates(Tail(msgs))

TrackerZero == [input |-> 0, output |-> 0, savings |-> 0, cost |-> 0]

-----------------------------------------------------------------------------
(* ShortTermMemory *)

\* Mutant: the messages are taken from the wrong end.
RemoveFirstFromEnd(messages, count) ==
    LET c == Min(count, Len(messages))
    IN  SubSeq(messages, 1, Len(messages) - c)

RemoveFirst(messages, count) ==
    LET c == Min(count, Len(messages))
    IN  SubSeq(messages, c + 1, Len(messages))

\* What remove_first returns: removed = self.messages[:count]
RemovedFirst(messages, count) == SubSeq(messages, 1, Min(count, Len(messages)))

\* Mutant: the message in front of the removed ones goes too.
RemoveLastAndOneMore(messages, count) ==
    LET c == Min(count + 1, Len(messages))
    IN  IF c > 0 THEN SubSeq(messages, 1, Len(messages) - c) ELSE messages

RemoveLast(messages, count) ==
    LET c == Min(count, Len(messages))
    IN  IF c > 0 THEN SubSeq(messages, 1, Len(messages) - c) ELSE messages

IsFull(messages) == Len(messages) >= MEMORY_SHORT_TERM_SIZE

\* Mutant: a bounded deque, the oldest message leaves when the cap is reached.
AddToFullDeque(messages, message) ==
    IF Len(messages) >= MEMORY_SHORT_TERM_SIZE
    THEN Append(Tail(messages), message)
    ELSE Append(messages, message)

\* ShortTermMemory.add_message
AddToShortTerm(messages, message) == Append(messages, message)

\* ShortTermMemory.get_messages: a copy of the list
GetMessages(messages) == messages

\* ShortTermMemory.clear
Clear(messages) == <<>>

\* ShortTermMemory.count
Count(messages) == Len(messages)

-----------------------------------------------------------------------------
(* Compression policy (MemoryManager) *)

MessageHasToolCalls(m) == m.calls # {} \/ m.role = "tool"

SelectStrategy(messages) ==
    IF \E i \in 1..Len(messages) : MessageHasToolCalls(messages[i])
    THEN SELECTIVE
    ELSE IF Len(messages) < 5 THEN DELETION ELSE SLIDING_WINDOW

\* int(MEMORY_COMPRESSION_THRESHOLD * MEMORY_SOFT_THRESHOLD_RATIO), the ratio num/den
SoftThreshold(threshold, num, den) == (threshold * num) \div den

\* Mutant: the hard limit compared with >= instead of >.
UrgencyAtThreshold(enabled, cap, threshold, num, den, count, tokens) ==
    IF ~enabled THEN NONE
    ELSE IF count >= cap THEN EMERGENCY
    ELSE IF tokens >= threshold THEN HARD
    ELSE IF tokens > SoftThreshold(threshold, num, den) THEN SOFT
    ELSE NONE

GetCompressionUrgency(enabled, cap, threshold, num, den, count, tokens) ==
    IF ~enabled THEN NONE
    ELSE IF count >= cap THEN EMERGENCY
    ELSE IF tokens > threshold THEN HARD
    ELSE IF tokens > SoftThreshold(threshold, num, den) THEN SOFT
    ELSE NONE

Urgency(count, tokens) ==
    GetCompressionUrgency(MEMORY_ENABLED, bound.cap, bound.threshold,
                          SOFT_RATIO_NUM, SOFT_RATIO_DEN,
                          count, tokens)

\* An assistant message whose tool_calls are all answered by later tool messages,
\* paired with each of those tool messages.  Indices are 0-based, as in the code.
FullyAnswered(messages, i) ==
    /\ messages[i].role = "assistant"
    /\ messages[i].calls # {}
    /\ \A c \in messages[i].calls :
         \E j \in (i + 1)..Len(messages) :
            messages[j].role = "tool" /\ messages[j].tcid = c

FindToolPairs(messages) ==
    {p \in (0..(Len(messages) - 1)) \X (0..(Len(messages) - 1)) :
        /\ p[1] < p[2]
        /\ FullyAnswered(messages, p[1] + 1)
        /\ messages[p[2] + 1].role = "tool"
        /\ messages[p[2] + 1].tcid \in messages[p[1] + 1].calls}

\* Mutant: the boundary test off by one, so a split right in front of the
\* tool result passes.
SafeCandidateOffByOne(tool_pairs, candidate) ==
    \A p \in tool_pairs :
        /\ ~(p[1] < candidate /\ candidate < p[2])
        /\ ~(p[2] < candidate /\ candidate < p[1])

\* No pair spans the boundary in front of index candidate.
SafeCandidate(tool_pairs, candidate) ==
    \A p \in tool_pairs :
        /\ ~(p[1] < candidate /\ candidate <= p[2])
        /\ ~(p[2] < candidate /\ candidate <= p[1])

\* Mutant: the scan stops above candidate 1, which is never tested.
RECURSIVE ScanAboveOne(_, _)
ScanAboveOne(tool_pairs, candidate) ==
    IF candidate <= 1 THEN 0
    ELSE IF SafeCandidate(tool_pairs, candidate) THEN candidate
    ELSE ScanAboveOne(tool_pairs, candidate - 1)

RECURSIVE ScanBackward(_, _)
ScanBackward(tool_pairs, candidate) ==
    IF candidate <= 0 THEN 0
    ELSE IF SafeCandidate(tool_pairs, candidate) THEN candidate
    ELSE ScanBackward(tool_pairs, candidate - 1)

FindSafeSplitPoint(messages) ==
    LET target == Len(messages) \div 2
    IN  IF target <= 0 THEN 0
        ELSE ScanBackward(FindToolPairs(messages), target)

RecalculateCurrentTokens(sys, buf) == SumEstimates(sys) + SumEstimates(buf)

\* Mutant: the buffer put in front of the system messages.
ContextBufferFirst == short_term \o system_messages

GetContextForLLM == system_messages \o short_term

-----------------------------------------------------------------------------
(* WorkingMemoryCompressor *)

\* The preserved tail starts after the first TailStart messages: the last
\* bound.tail messages, extended backward until no tool pair is split.
RECURSIVE ExtendBackward(_, _)
ExtendBackward(tool_pairs, s) ==
    IF s <= 0 THEN 0
    ELSE IF \E p \in tool_pairs : p[1] < s /\ s <= p[2]
         THEN ExtendBackward(tool_pairs, s - 1)
         ELSE s

TailStart(messages) ==
    ExtendBackward(FindToolPairs(messages), Max(Len(messages) - bound.tail, 0))

\* compressed.messages: the summary message, then the preserved tail.
CompressorMessages(messages, strategy) ==
    LET s == TailStart(messages)
        tail == SubSeq(messages, s + 1, Len(messages))
    IN  IF strategy = DELETION THEN tail ELSE <<SummaryMessage>> \o tail

\* CompressedMemory.token_savings = original_tokens - compressed_tokens
TokenSavings(input, output) == SumEstimates(input) - SumEstimates(output)

-----------------------------------------------------------------------------
(* The caller.  An agent turn is: a user message, then assistant messages, *)
(* each either final or carrying tool calls that tool messages answer one  *)
(* by one.  Call ids are unique: 10 * (the assistant's id) + k.            *)

CallIds(id, k) == {10 * id + j : j \in 1..k}

MinOf(S) == CHOOSE x \in S : \A y \in S : x <= y

\* The messages the caller may pass next, with the caller's state afterwards.
NextInputs ==
    CASE agent.expect = "user" ->
            {[msg |-> Message(next_id, "user", {}, 0),
              then |-> [expect |-> "assistant", pending |-> {}]]}
      [] agent.expect = "assistant" ->
            {[msg |-> Message(next_id, "assistant", {}, 0),
              then |-> [expect |-> "user", pending |-> {}]]}
            \cup
            {[msg |-> [Message(next_id, "assistant", {}, 0) EXCEPT !.empty_calls = TRUE],
              then |-> [expect |-> "user", pending |-> {}]] : e \in {TRUE} \cap {bound.empties}}
            \cup
            {[msg |-> Message(next_id, "assistant", CallIds(next_id, k), 0),
              then |-> [expect |-> "tool", pending |-> CallIds(next_id, k)]]
                : k \in 1..bound.calls}
      [] OTHER ->
            {[msg |-> Message(next_id, "tool", {}, MinOf(agent.pending)),
              then |-> IF agent.pending = {MinOf(agent.pending)}
                       THEN [expect |-> "assistant", pending |-> {}]
                       ELSE [expect |-> "tool",
                             pending |-> agent.pending \ {MinOf(agent.pending)}]]}

\* The API reports usage with an assistant message; other messages carry none.
ActualTokens(m) ==
    IF m.role = "assistant"
    THEN {NoActual, EmptyDict, Actual(1, 1), Actual(bound.threshold, 1)}
    ELSE {NoActual}

Event(op, msg, actual, urgency, task, result) ==
    [op |-> op, msg |-> msg, actual |-> actual, urgency |-> urgency,
     task |-> task, result |-> result]

-----------------------------------------------------------------------------
(* compress(), up to the await of the summariser: the task it leaves in flight *)

\* Mutant: the snapshot taken without the message that was just appended.
CompressTaskStale(messages, urgency) ==
    LET stale == RemoveLast(messages, 1)
        split == FindSafeSplitPoint(stale)
    IN  IF urgency = SOFT /\ Len(stale) > 4 /\ split > 0 /\ split < Len(stale)
        THEN [partial |-> TRUE, snap |-> stale, split |-> split,
              strategy |-> SelectStrategy(SubSeq(stale, 1, split)), late |-> <<>>,
              retry |-> last.op = "compress_failed"]
        ELSE [partial |-> FALSE, snap |-> stale, split |-> 0,
              strategy |-> SelectStrategy(stale), late |-> <<>>,
              retry |-> last.op = "compress_failed"]

CompressTask(messages, urgency) ==
    LET message_count == Len(messages)
        split == FindSafeSplitPoint(messages)
    IN  IF urgency = SOFT /\ message_count > 4 /\ split > 0 /\ split < message_count
        THEN [partial |-> TRUE, snap |-> messages, split |-> split,
              strategy |-> SelectStrategy(SubSeq(messages, 1, split)), late |-> <<>>,
              retry |-> last.op = "compress_failed"]
        ELSE [partial |-> FALSE, snap |-> messages, split |-> 0,
              strategy |-> SelectStrategy(messages), late |-> <<>>,
              retry |-> last.op = "compress_failed"]

\* Every compression in flight sees the message appended behind its snapshot.
NoteLate(ts, m) == [i \in 1..Len(ts) |-> [ts[i] EXCEPT !.late = Append(@, m)]]

RemoveAt(ts, i) == SubSeq(ts, 1, i - 1) \o SubSeq(ts, i + 1, Len(ts))

-----------------------------------------------------------------------------
(* The session store and lazy session creation *)

\* created counts the create_session() calls; file is <<>> while nothing was
\* written, else <<the lists written last>>.  History: asked is <<>> or
\* <<the context when save_memory was last called>>, fresh tells whether that
\* call wrote.  creating holds the create_session() calls that have not
\* returned yet, failed counts those that raised.
EmptyStore == [created |-> 0, file |-> <<>>, asked |-> <<>>, fresh |-> FALSE,
               creating |-> <<>>, failed |-> 0]

\* _ensure_session: the session fields and the store afterwards.
EnsureSession ==
    IF session_created
    THEN [id |-> session_id, created |-> TRUE, store |-> store]
    ELSE [id |-> <<store.created + 1>>, created |-> TRUE,
          store |-> [store EXCEPT !.created = @ + 1]]

-----------------------------------------------------------------------------
(* add_message *)

\* Mutant: the context size taken from the input tokens alone.
AccountInputOnly(m, actual) ==
    IF actual.kind = "pair"
    THEN [tracker |-> [token_tracker EXCEPT !.input = @ + actual.in,
                                            !.output = @ + actual.out],
          api |-> <<actual.in>>,
          delta |-> 0]
    ELSE [tracker |-> token_tracker,
          api |-> last_api_context_tokens,
          delta |-> estimated_delta_tokens + Estimate(m)]

\* Token accounting of a non-system message: the tracker totals, the
\* API-grounded context size and the estimated delta afterwards.
Account(m, actual) ==
    IF actual.kind = "pair"
    THEN [tracker |-> [token_tracker EXCEPT !.input = @ + actual.in,
                                            !.output = @ + actual.out],
          api |-> <<actual.in + actual.out>>,
          delta |-> 0]
    ELSE [tracker |-> token_tracker,
          api |-> last_api_context_tokens,
          delta |-> estimated_delta_tokens + Estimate(m)]

\* current_tokens after the message is appended.
GroundedTokens(api, delta, sys, buf) ==
    IF api # <<>> THEN api[1] + delta ELSE RecalculateCurrentTokens(sys, buf)

\* Mutant: the system message is accounted like any other message.
AddSystemMessageEstimated(ensured) ==
    /\ n_system < bound.sys
    /\ LET m == Message(100 + n_system + 1, "system", {}, 0)
       IN  /\ system_messages' = Append(system_messages, m)
           /\ sys_log' = Append(sys_log, m)
           /\ estimated_delta_tokens' = estimated_delta_tokens + Estimate(m)
           /\ last' = Event("add_system", m, NoActual, NONE, NoTask, "-")
    /\ n_system' = n_system + 1
    /\ session_id' = ensured.id
    /\ session_created' = ensured.created
    /\ store' = ensured.store
    /\ UNCHANGED <<short_term, current_tokens, was_compressed_last_iteration,
                   last_compression_savings, compression_count,
                   last_api_context_tokens, token_tracker,
                   tasks, agent, next_id, n_manual, compressed_in, long_term, bound, arg, ret>>

\* add_message of a system message once _ensure_session gave ensured
AddSystemMessageAfter(ensured) ==
    /\ n_system < bound.sys
    /\ LET m == Message(100 + n_system + 1, "system", {}, 0)
       IN  /\ system_messages' = Append(system_messages, m)
           /\ sys_log' = Append(sys_log, m)
           /\ last' = Event("add_system", m, NoActual, NONE, NoTask, "-")
    /\ n_system' = n_system + 1
    /\ session_id' = ensured.id
    /\ session_created' = ensured.created
    /\ store' = ensured.store
    /\ UNCHANGED <<short_term, current_tokens, was_compressed_last_iteration,
                   last_compression_savings, compression_count,
                   last_api_context_tokens, estimated_delta_tokens, token_tracker,
                   tasks, agent, next_id, n_manual, compressed_in, long_term, bound, arg, ret>>

AddSystemMessage == AddSystemMessageAfter(EnsureSession)

\* add_message of a non-system message once _ensure_session gave ensured
AddMessageAfter(ensured) ==
    /\ next_id <= bound.msgs
    /\ \E inp \in NextInputs : \E actual \in ActualTokens(inp.msg) :
        LET m == inp.msg
            acc == Account(m, actual)
            buf == AddToShortTerm(short_term, m)
            cur == GroundedTokens(acc.api, acc.delta, system_messages, buf)
            urgency == Urgency(Len(buf), cur)
            started == IF urgency # NONE THEN CompressTask(buf, urgency) ELSE NoTask
        IN  /\ urgency # NONE => Len(tasks) < bound.inflight
            /\ token_tracker' = acc.tracker
            /\ last_api_context_tokens' = acc.api
            /\ estimated_delta_tokens' = acc.delta
            /\ short_term' = buf
            /\ current_tokens' = cur
            /\ was_compressed_last_iteration' = FALSE
            /\ tasks' = IF urgency # NONE
                        THEN Append(NoteLate(tasks, m), started)
                        ELSE NoteLate(tasks, m)
            /\ agent' = inp.then
            /\ last' = Event("add_message", m, actual, urgency, started, "-")
    /\ next_id' = next_id + 1
    /\ session_id' = ensured.id
    /\ session_created' = ensured.created
    /\ store' = ensured.store
    /\ UNCHANGED <<system_messages, last_compression_savings, compression_count,
                   n_system, n_manual, compressed_in, sys_log, long_term, bound, arg, ret>>

AddMessage == AddMessageAfter(EnsureSession)

-----------------------------------------------------------------------------
(* compress() called directly (the /compact command): urgency HARD *)

ManualCompress ==
    /\ n_manual < bound.manual
    /\ n_manual' = n_manual + 1
    /\ IF short_term = <<>>
       THEN /\ tasks' = tasks
            /\ last' = Event("compress", NoMsg, NoActual, HARD, NoTask, "none")
       ELSE /\ Len(tasks) < bound.inflight
            /\ tasks' = Append(tasks, CompressTask(short_term, HARD))
            /\ last' = Event("compress", NoMsg, NoActual, HARD,
                             CompressTask(short_term, HARD), "-")
    /\ UNCHANGED <<coordinator, session, agent, next_id, n_system, compressed_in,
                   sys_log, long_term, bound, arg, ret>>

-----------------------------------------------------------------------------
(* compress() / _compress_partial() after the summariser call returned *)

\* What the summariser was given.
CompressorInput(t) == IF t.partial THEN SubSeq(t.snap, 1, t.split) ELSE t.snap

\* Full compression: drop the first message_count messages, keep what is left
\* behind them, rebuild as compressed.messages ++ remaining.
SpliceFull(buf, t, out) ==
    LET remaining_messages == RemoveFirst(buf, Len(t.snap))
    IN  out \o remaining_messages

\* Partial compression: compressed.messages ++ to_keep ++ extra.
SplicePartial(buf, t, out) ==
    LET to_keep == SubSeq(t.snap, t.split + 1, Len(t.snap))
        extra == RemoveFirst(buf, Len(t.snap))
    IN  out \o to_keep \o extra

\* Mutant: the estimated delta kept across the splice.
KeepDelta == [api |-> <<>>, delta |-> estimated_delta_tokens]

\* The API-grounded counters after a splice.
ResetGrounding == [api |-> <<>>, delta |-> 0]

CompressSucceed(i) ==
    /\ i \in 1..Len(tasks)
    /\ LET t == tasks[i]
           input == CompressorInput(t)
           out == CompressorMessages(input, t.strategy)
           savings == TokenSavings(input, out)
           buf == IF t.partial THEN SplicePartial(short_term, t, out)
                               ELSE SpliceFull(short_term, t, out)
       IN  /\ compression_count' = compression_count + 1
           /\ was_compressed_last_iteration' = TRUE
           /\ last_compression_savings' = savings
           /\ token_tracker' = [token_tracker EXCEPT !.savings = @ + savings,
                                                     !.cost = @ + SumEstimates(out)]
           /\ short_term' = buf
           /\ last_api_context_tokens' = ResetGrounding.api
           /\ estimated_delta_tokens' = ResetGrounding.delta
           /\ current_tokens' = RecalculateCurrentTokens(system_messages, buf)
           /\ compressed_in' = compressed_in \cup Ids(input)
           /\ last' = Event(IF t.partial THEN "splice_partial" ELSE "splice_full",
                            NoMsg, NoActual, NONE, t, "compressed")
    /\ tasks' = RemoveAt(tasks, i)
    /\ UNCHANGED <<system_messages, session, agent, next_id, n_system, n_manual,
                   sys_log, long_term, bound, arg, ret>>

\* Mutant: the compression counted before the summariser is awaited, so a
\* failed call leaves the count raised.
CompressFailCounted(i) ==
    /\ i \in 1..Len(tasks)
    /\ tasks' = RemoveAt(tasks, i)
    /\ compression_count' = compression_count + 1
    /\ last' = Event("compress_failed", NoMsg, NoActual, NONE, tasks[i], "none")
    /\ UNCHANGED <<short_term, system_messages, current_tokens,
                   was_compressed_last_iteration, last_compression_savings,
                   last_api_context_tokens, estimated_delta_tokens, token_tracker,
                   session, agent, next_id, n_system, n_manual, compressed_in, sys_log,
                   long_term, bound, arg, ret>>

\* The summariser raised: `except Exception` logs and returns None.
CompressFail(i) ==
    /\ i \in 1..Len(tasks)
    /\ tasks' = RemoveAt(tasks, i)
    /\ last' = Event("compress_failed", NoMsg, NoActual, NONE, tasks[i], "none")
    /\ UNCHANGED <<coordinator, session, agent, next_id, n_system, n_manual,
                   compressed_in, sys_log, long_term, bound, arg, ret>>

\* The awaiting task was cancelled: CancelledError is no Exception, so the
\* handler does not catch it and it leaves compress() (and add_message).
CompressCancel(i) ==
    /\ i \in 1..Len(tasks)
    /\ tasks' = RemoveAt(tasks, i)
    /\ last' = Event("compress_cancelled", NoMsg, NoActual, NONE, tasks[i], "raised")
    /\ UNCHANGED <<coordinator, session, agent, next_id, n_system, n_manual,
                   compressed_in, sys_log, long_term, bound, arg, ret>>

-----------------------------------------------------------------------------
(* rollback_incomplete_exchange and reset *)

RollbackApplies(messages) ==
    /\ messages # <<>>
    /\ messages[Len(messages)].role = "assistant"
    /\ MessageHasToolCalls(messages[Len(messages)])

RollbackIncompleteExchange ==
    /\ IF RollbackApplies(short_term)
       THEN /\ short_term' = RemoveLast(short_term, 1)
            /\ current_tokens' =
                   RecalculateCurrentTokens(system_messages, RemoveLast(short_term, 1))
            /\ last' = Event("rollback", short_term[Len(short_term)], NoActual, NONE,
                             NoTask, "removed")
       ELSE /\ UNCHANGED <<short_term, current_tokens>>
            /\ last' = Event("rollback", NoMsg, NoActual, NONE, NoTask, "kept")
    /\ agent' = [expect |-> "user", pending |-> {}]
    /\ UNCHANGED <<system_messages, was_compressed_last_iteration,
                   last_compression_savings, compression_count,
                   last_api_context_tokens, estimated_delta_tokens, token_tracker,
                   session, tasks, next_id, n_system, n_manual, compressed_in, sys_log,
                   long_term, bound, arg, ret>>

Reset ==
    /\ short_term' = <<>>
    /\ system_messages' = <<>>
    /\ token_tracker' = TrackerZero
    /\ current_tokens' = 0
    /\ was_compressed_last_iteration' = FALSE
    /\ last_compression_savings' = 0
    /\ compression_count' = 0
    /\ last_api_context_tokens' = <<>>
    /\ estimated_delta_tokens' = 0
    /\ sys_log' = <<>>
    /\ agent' = [expect |-> "user", pending |-> {}]
    /\ last' = Event("reset", NoMsg, NoActual, NONE, NoTask, "-")
    /\ UNCHANGED <<session, tasks, next_id, n_system, n_manual, compressed_in, long_term, bound,
                   arg, ret>>

-----------------------------------------------------------------------------
(* save_memory and from_session *)

\* LLMMessage.to_dict: a key is present (<<value>>) or absent (<<>>).  content
\* is written as it is; tool_calls and tool_call_id only when truthy.
ToDict(m) ==
    [role |-> m.role,
     content |-> <<m.id, m.summary>>,
     tool_calls |-> IF m.calls # {} THEN <<m.calls>> ELSE <<>>,
     tool_call_id |-> IF m.tcid # 0 THEN <<m.tcid>> ELSE <<>>]

\* Mutant: tool_call_id is not read back.
FromDictNoToolCallId(d) ==
    [id |-> d.content[1],
     role |-> d.role,
     calls |-> IF d.tool_calls = <<>> THEN {} ELSE d.tool_calls[1],
     tcid |-> 0,
     summary |-> d.content[2],
     empty_calls |-> FALSE]

\* LLMMessage.from_dict: an absent key gives None.
FromDict(d) ==
    [id |-> d.content[1],
     role |-> d.role,
     calls |-> IF d.tool_calls = <<>> THEN {} ELSE d.tool_calls[1],
     tcid |-> IF d.tool_call_id = <<>> THEN 0 ELSE d.tool_call_id[1],
     summary |-> d.content[2],
     empty_calls |-> FALSE]

ToDicts(messages) == [i \in 1..Len(messages) |-> ToDict(messages[i])]
FromDicts(dicts) == [i \in 1..Len(dicts) |-> FromDict(dicts[i])]

\* Mutant: only a missing session makes save_memory return early.
SaveSkippedWithoutSessionOnly == ~session_created \/ session_id = <<>>

\* The two early returns of save_memory.
SaveSkipped ==
    \/ ~session_created
    \/ session_id = <<>>
    \/ (short_term = <<>> /\ system_messages = <<>>)

SaveMemory ==
    /\ store' = IF SaveSkipped
                THEN [store EXCEPT !.asked = <<GetContextForLLM>>, !.fresh = FALSE]
                ELSE [store EXCEPT
                        !.file = <<[system_messages |-> ToDicts(system_messages),
                                    messages |-> ToDicts(short_term)]>>,
                        !.asked = <<GetContextForLLM>>,
                        !.fresh = TRUE]
    /\ last' = Event("save_memory", NoMsg, NoActual, NONE, NoTask,
                     IF SaveSkipped THEN "skipped" ELSE "written")
    /\ UNCHANGED <<coordinator, session_id, session_created, tasks, agent, next_id,
                   n_system, n_manual, compressed_in, sys_log, long_term, bound, arg, ret>>

\* from_session(id) for the id the store gives its first session: a new
\* coordinator takes the place of this one.  The id does not exist until that
\* session is created; load_session gives nothing for it, nor while no content
\* was written, and from_session raises ValueError (the coordinator stays).
\* Once written the session is the one of this coordinator, so session_id
\* stays.  Compressions of the replaced coordinator are not followed, so none
\* is in flight.
FromSession ==
    /\ tasks = <<>>
    /\ IF store.created = 0 \/ store.file = <<>>
       THEN /\ last' = Event("from_session", NoMsg, NoActual, NONE, NoTask, "ValueError")
            /\ UNCHANGED <<coordinator, session_created, agent, sys_log>>
       ELSE LET session_data == store.file[1]
                sys == FromDicts(session_data.system_messages)
                buf == FromDicts(session_data.messages)
            IN  /\ system_messages' = sys
                /\ short_term' = buf
                /\ current_tokens' = RecalculateCurrentTokens(sys, buf)
                /\ was_compressed_last_iteration' = FALSE
                /\ last_compression_savings' = 0
                /\ compression_count' = 0
                /\ last_api_context_tokens' = <<>>
                /\ estimated_delta_tokens' = 0
                /\ token_tracker' = TrackerZero
                /\ session_created' = TRUE
                /\ sys_log' = sys
                /\ agent' = [expect |-> "user", pending |-> {}]
                /\ last' = Event("from_session", NoMsg, NoActual, NONE, NoTask, "loaded")
    /\ UNCHANGED <<session_id, store, tasks, next_id, n_system, n_manual, compressed_in,
                   long_term, bound, arg, ret>>

-----------------------------------------------------------------------------
(* The coordinator after construction, and its behaviours *)

\* Config.LONG_TERM_MEMORY_ENABLED is off: MemoryManager._long_term is None.
LongTermDisabled == [pc |-> "disabled"]

\* MemoryManager(llm, session_id): id is <<>> for None, else <<the id given>>
ConstructedWith(id) ==
    /\ short_term = <<>>
    /\ system_messages = <<>>
    /\ current_tokens = 0
    /\ was_compressed_last_iteration = FALSE
    /\ last_compression_savings = 0
    /\ compression_count = 0
    /\ last_api_context_tokens = <<>>
    /\ estimated_delta_tokens = 0
    /\ token_tracker = TrackerZero
    /\ session_id = id
    /\ session_created = (id # <<>>)
    /\ store = EmptyStore
    /\ tasks = <<>>
    /\ agent = [expect |-> "user", pending |-> {}]
    /\ next_id = 1
    /\ n_system = 0
    /\ n_manual = 0
    /\ compressed_in = {}
    /\ sys_log = <<>>
    /\ last = Event("init", NoMsg, NoActual, NONE, NoTask, "-")

ManagerConstructed == ConstructedWith(<<>>)

Constructed == ManagerConstructed /\ long_term = LongTermDisabled

\* empties: whether the caller also passes assistant messages with tool_calls = [].
\* cap, threshold: Config.MEMORY_SHORT_TERM_SIZE and MEMORY_COMPRESSION_THRESHOLD;
\* weight: the token estimate of an ordinary message; tail: the preserved tail P.
Bounds(msgs, sys, inflight, calls, manual, empties) ==
    [msgs |-> msgs, sys |-> sys, inflight |-> inflight, calls |-> calls,
     manual |-> manual, empties |-> empties,
     cap |-> MEMORY_SHORT_TERM_SIZE, threshold |-> MEMORY_COMPRESSION_THRESHOLD,
     weight |-> 1, tail |-> PreservedTail]

Init ==
    /\ Constructed
    /\ bound = Bounds(MaxMsgs, MaxSys, MaxInFlight, MaxCalls, 0, FALSE)
    /\ arg = <<>>
    /\ ret = <<>>

Next ==
    \/ AddSystemMessage
    \/ AddMessage
    \/ \E i \in 1..MaxInFlight : CompressSucceed(i)
    \/ \E i \in 1..MaxInFlight : CompressFail(i)
    \/ \E i \in 1..MaxInFlight : CompressCancel(i)

Spec == Init /\ [][Next]_vars

InitOps ==
    /\ Constructed
    /\ bound = Bounds(OpsMaxMsgs, OpsMaxSys, OpsMaxInFlight, OpsMaxCalls, OpsMaxManual,
                      FALSE)
    /\ arg = <<>>
    /\ ret = <<>>

NextOps ==
    \/ AddSystemMessage
    \/ AddMessage
    \/ ManualCompress
    \/ \E i \in 1..OpsMaxInFlight : CompressSucceed(i)
    \/ \E i \in 1..OpsMaxInFlight : CompressFail(i)
    \/ \E i \in 1..OpsMaxInFlight : CompressCancel(i)
    \/ RollbackIncompleteExchange
    \/ Reset

SpecOps == InitOps /\ [][NextOps]_vars

InitTurn ==
    /\ Constructed
    /\ bound = Bounds(TurnMaxMsgs, TurnMaxSys, TurnMaxInFlight, TurnMaxCalls, 0, FALSE)
    /\ arg = <<>>
    /\ ret = <<>>

NextTurn ==
    \/ AddSystemMessage
    \/ AddMessage
    \/ \E i \in 1..TurnMaxInFlight : CompressSucceed(i)
    \/ \E i \in 1..TurnMaxInFlight : CompressFail(i)
    \/ RollbackIncompleteExchange

SpecTurn == InitTurn /\ [][NextTurn]_vars

InitSession ==
    /\ Constructed
    /\ bound = Bounds(SessionMaxMsgs, SessionMaxSys, SessionMaxInFlight, SessionMaxCalls,
                      0, TRUE)
    /\ arg = <<>>
    /\ ret = <<>>

NextSession ==
    \/ AddSystemMessage
    \/ AddMessage
    \/ \E i \in 1..SessionMaxInFlight : CompressSucceed(i)
    \/ SaveMemory
    \/ FromSession
    \/ Reset

SpecSession == InitSession /\ [][NextSession]_vars

\* add_message calls that overlap at the await of create_session().
\* messages added, system messages added
EnsureMaxMsgs == 3
EnsureMaxSys == 1
\* create_session() calls made, calls awaited at once, calls that raise
MaxCreates == 3
MaxCreating == 2
MaxFailures == 1

\* The coordinator is new or was constructed with the id of an older session
\* (id 0); arg keeps the session_id argument.
InitEnsure ==
    /\ \E id \in {<<>>, <<0>>} : ConstructedWith(id) /\ arg = id
    /\ long_term = LongTermDisabled
    /\ bound = Bounds(EnsureMaxMsgs, EnsureMaxSys, 0, 0, 0, FALSE)
    /\ ret = <<>>

Awaiting(system) ==
    Cardinality({i \in 1..Len(store.creating) : store.creating[i].system = system})

\* add_message enters _ensure_session while _session_created is False:
\* create_session() is called and awaited.
CallCreateSession ==
    /\ ~session_created
    /\ store.created < MaxCreates
    /\ Len(store.creating) < MaxCreating
    /\ \E system \in BOOLEAN :
          /\ IF system THEN n_system + Awaiting(TRUE) < bound.sys
                       ELSE next_id + Awaiting(FALSE) <= bound.msgs
          /\ store' = [store EXCEPT
                          !.created = @ + 1,
                          !.creating = Append(@, [id |-> store.created + 1,
                                                  system |-> system])]
    /\ last' = Event("ensure_session", NoMsg, NoActual, NONE, NoTask, "awaiting")
    /\ UNCHANGED <<coordinator, session_id, session_created, tasks, agent, next_id,
                   n_system, n_manual, compressed_in, sys_log, long_term, bound, arg, ret>>

\* create_session() returns to the i-th waiting call: session_id and
\* _session_created are set and add_message goes on.
CreateSessionReturns(i) ==
    /\ i <= Len(store.creating)
    /\ LET call == store.creating[i]
           ensured == [id |-> <<call.id>>, created |-> TRUE,
                       store |-> [store EXCEPT !.creating = RemoveAt(@, i)]]
       IN  IF call.system THEN AddSystemMessageAfter(ensured)
           ELSE AddMessageAfter(ensured)

\* Mutant: the failed attempt marks the session as created.
SessionMarkedCreated == [id |-> session_id, created |-> TRUE]

\* The session fields when create_session() raised: neither was assigned.
SessionAfterFailure == [id |-> session_id, created |-> session_created]

\* create_session() raises in the i-th waiting call: _ensure_session raises
\* RuntimeError and add_message ends there.
CreateSessionFails(i) ==
    /\ i <= Len(store.creating)
    /\ store.failed < MaxFailures
    /\ store' = [store EXCEPT !.creating = RemoveAt(@, i), !.failed = @ + 1]
    /\ session_id' = SessionAfterFailure.id
    /\ session_created' = SessionAfterFailure.created
    /\ last' = Event("add_message", NoMsg, NoActual, NONE, NoTask, "RuntimeError")
    /\ UNCHANGED <<coordinator, tasks, agent, next_id, n_system, n_manual,
                   compressed_in, sys_log, long_term, bound, arg, ret>>

\* add_message when _session_created is True: _ensure_session awaits nothing.
AddWithSession ==
    /\ session_created
    /\ (AddSystemMessage \/ AddMessage)

NextEnsure ==
    \/ CallCreateSession
    \/ \E i \in 1..MaxCreating : CreateSessionReturns(i)
    \/ \E i \in 1..MaxCreating : CreateSessionFails(i)
    \/ AddWithSession
    \/ SaveMemory

SpecEnsure == InitEnsure /\ [][NextEnsure]_vars

\* The compression scenario: N_cap = 4, H = 100, messages of 30 tokens, no tool
\* calls, a summariser that answers; the caller awaits each add_message, so
\* the compression it starts has completed before the next message is added.
\* The preserved tail P of the compressor is any of 0..ScenarioMaxTail.
InitScenario ==
    /\ Constructed
    /\ \E p \in 0..ScenarioMaxTail :
          bound = [Bounds(ScenarioMsgs, 0, ScenarioInFlight, 0, 0, FALSE)
                      EXCEPT !.cap = ScenarioCap, !.threshold = ScenarioThreshold,
                             !.weight = ScenarioWeight, !.tail = p]
    /\ arg = <<>>
    /\ ret = <<>>

AwaitedAddMessage == tasks = <<>> /\ AddMessage

NextScenario ==
    \/ AwaitedAddMessage
    \/ \E i \in 1..ScenarioInFlight : CompressSucceed(i)

SpecScenario == InitScenario /\ [][NextScenario]_vars

-----------------------------------------------------------------------------
(* Pure functions, applied to inputs drawn from bounded sets *)

Idle ==
    /\ Constructed
    /\ bound = Bounds(0, 0, 0, 0, 0, FALSE)
    /\ ret = <<>>

Unapplied ==
    /\ ret = <<>>
    /\ UNCHANGED <<coordinator, session, tasks, agent, next_id, n_system, n_manual,
                   compressed_in, sys_log, last, long_term, bound, arg>>

\* _get_compression_urgency over every configuration and state near the thresholds
UrgencyInputs ==
    [enabled : BOOLEAN,
     cap : {MEMORY_SHORT_TERM_SIZE},
     threshold : {5, MEMORY_COMPRESSION_THRESHOLD, 10},
     num : {5, SOFT_RATIO_NUM, 8},
     count : 0..(MEMORY_SHORT_TERM_SIZE + 1),
     tokens : 0..12]

InitUrgency == Idle /\ arg \in UrgencyInputs

ApplyUrgency ==
    /\ Unapplied
    /\ ret' = <<GetCompressionUrgency(arg.enabled, arg.cap, arg.threshold,
                                      arg.num, SOFT_RATIO_DEN,
                                      arg.count, arg.tokens)>>

SpecUrgency == InitUrgency /\ [][ApplyUrgency]_vars

\* _find_safe_split_point over every message list of at most MaxLen messages
\* with two tool call ids; an assistant carries none, one or both.
Alphabet ==
    {Message(0, "user", {}, 0)}
    \cup {Message(0, "assistant", calls, 0) : calls \in SUBSET {1, 2}}
    \cup {Message(0, "tool", {}, c) : c \in {1, 2}}

MessageLists == UNION {[1..n -> Alphabet] : n \in 0..MaxLen}

InitSplit == Idle /\ arg \in MessageLists

ApplySplit ==
    /\ Unapplied
    /\ ret' = <<FindSafeSplitPoint(arg)>>

SpecSplit == InitSplit /\ [][ApplySplit]_vars

\* ShortTermMemory on its own: arg is the history of what was appended and
\* whether anything was removed, ret the answers of the last read.
BufferInputs == {Message(0, "user", {}, 0), Message(0, "assistant", {}, 0)}

\* History of the buffer: what was appended while nothing was removed, and
\* the call made last with the buffer before it, what it returned, the list
\* get_messages() had handed out before (read) and that list after the call
\* (held).
Called(appended, removed, op, count, before, returned, read, held) ==
    [appended |-> appended, removed |-> removed, op |-> op, count |-> count,
     before |-> before, returned |-> returned, read |-> read, held |-> held]

\* get_messages() returned list(self.messages), a list of its own: it is
\* the same list whatever the buffer has become.
HeldList(list, messages) == list

InitBuffer == Idle /\ arg = Called(<<>>, FALSE, "init", 0, <<>>, <<>>, <<>>, <<>>)

BufferFrame ==
    UNCHANGED <<system_messages, current_tokens, was_compressed_last_iteration,
                last_compression_savings, compression_count, last_api_context_tokens,
                estimated_delta_tokens, token_tracker, session, tasks, agent, next_id,
                n_system, n_manual, compressed_in, sys_log, last, long_term, bound>>

BufferAdd ==
    /\ Len(short_term) < BufferMaxLen
    /\ \E message \in BufferInputs :
          /\ short_term' = AddToShortTerm(short_term, message)
          /\ arg' = Called(IF arg.removed THEN <<>> ELSE Append(arg.appended, message),
                           arg.removed, "add_message", 0, <<>>, <<>>, <<>>, <<>>)
    /\ ret' = <<>>
    /\ BufferFrame

BufferRemoveFirst ==
    /\ \E count \in 0..2 :
          /\ short_term' = RemoveFirst(short_term, count)
          /\ arg' = Called(<<>>, TRUE, "remove_first", count, short_term,
                           <<RemovedFirst(short_term, count)>>,
                           IF ret = <<>> THEN <<>> ELSE <<ret[1].messages>>,
                           IF ret = <<>> THEN <<>>
                           ELSE <<HeldList(ret[1].messages, short_term')>>)
    /\ ret' = <<>>
    /\ BufferFrame

BufferRemoveLast ==
    /\ \E count \in 0..2 :
          /\ short_term' = RemoveLast(short_term, count)
          /\ arg' = Called(<<>>, TRUE, "remove_last", count, short_term, <<>>,
                           IF ret = <<>> THEN <<>> ELSE <<ret[1].messages>>,
                           IF ret = <<>> THEN <<>>
                           ELSE <<HeldList(ret[1].messages, short_term')>>)
    /\ ret' = <<>>
    /\ BufferFrame

BufferClear ==
    /\ short_term' = Clear(short_term)
    /\ arg' = Called(<<>>, TRUE, "clear", 0, <<>>, <<>>, <<>>, <<>>)
    /\ ret' = <<>>
    /\ BufferFrame

BufferRead ==
    /\ ret' = <<[messages |-> GetMessages(short_term),
                 is_full |-> IsFull(short_term),
                 count |-> Count(short_term)]>>
    /\ UNCHANGED <<short_term, arg>>
    /\ BufferFrame

NextBuffer ==
    \/ BufferAdd
    \/ BufferRemoveFirst
    \/ BufferRemoveLast
    \/ BufferClear
    \/ BufferRead

SpecBuffer == InitBuffer /\ [][NextBuffer]_vars

-----------------------------------------------------------------------------
(* LongTermMemoryConsolidator._parse_response *)

\* MemoryCategory
Categories == {"decisions", "preferences", "facts"}

\* Items of a YAML list: a string, the empty string, a number.  text is what
\* str() gives.
Items ==
    {[kind |-> "str", text |-> "merged"],
     [kind |-> "str", text |-> ""],
     [kind |-> "int", text |-> "7"]}

\* `if e`: the empty string, None and 0 are dropped.
Truthy(e) == e.kind # "null" /\ e.text # "" /\ ~(e.kind = "int" /\ e.text = "0")

\* [str(e) for e in raw if e]
RECURSIVE Entries(_)
Entries(raw) ==
    IF raw = <<>> THEN <<>>
    ELSE (IF Truthy(Head(raw)) THEN <<Head(raw).text>> ELSE <<>>) \o Entries(Tail(raw))

ItemLists == UNION {[1..n -> Items] : n \in 0..MaxItems}

\* What a mapping holds under a category key: nothing (the key is absent), a
\* list, or something that is not a list (null, a string, a mapping).
Absent == [kind |-> "absent", items |-> <<>>]
NotAList == [kind |-> "other", items |-> <<>>]
RawValues == {Absent, NotAList} \cup {[kind |-> "list", items |-> l] : l \in ItemLists}

\* What yaml.safe_load makes of the response text: it raises, or gives None
\* (an empty text), a scalar, a list, or a mapping; a mapping may also hold a
\* key that is no category (extra).
NotAMapping(kind) == [kind |-> kind, cats |-> [cat \in Categories |-> Absent], extra |-> FALSE]

Responses ==
    {NotAMapping(k) : k \in {"raises", "null", "scalar", "list"}}
    \cup [kind : {"mapping"}, cats : [Categories -> RawValues], extra : BOOLEAN]

\* data.get(cat.value, [])
GetOrEmptyList(data, cat) ==
    IF data.cats[cat].kind = "absent" THEN [kind |-> "list", items |-> <<>>]
    ELSE data.cats[cat]

\* Mutant: a category the mapping omits keeps its original entries.
ParseResponseMerging(data, original) ==
    IF data.kind = "raises" THEN original
    ELSE IF data.kind # "mapping" THEN original
    ELSE [cat \in Categories |->
            IF data.cats[cat].kind = "list" THEN Entries(data.cats[cat].items)
            ELSE original[cat]]

\* Mutant: whatever was parsed is read as a mapping.
ParseResponseAnyShape(data, original) ==
    IF data.kind = "raises" THEN original
    ELSE [cat \in Categories |->
            LET raw == GetOrEmptyList(data, cat)
            IN  IF raw.kind = "list" THEN Entries(raw.items) ELSE original[cat]]

ParseResponse(data, original) ==
    IF data.kind = "raises" THEN original
    ELSE IF data.kind # "mapping" THEN original
    ELSE [cat \in Categories |->
            LET raw == GetOrEmptyList(data, cat)
            IN  IF raw.kind = "list" THEN Entries(raw.items) ELSE original[cat]]

\* The entries the consolidator was given: every category filled, or some empty.
Originals ==
    {[cat \in Categories |-> <<cat>>],
     [cat \in Categories |-> IF cat = "facts" THEN <<>> ELSE <<cat, "old">>]}

InitParse == Idle /\ arg \in [data : Responses, original : Originals]

ApplyParse ==
    /\ Unapplied
    /\ ret' = <<ParseResponse(arg.data, arg.original)>>

SpecParse == InitParse /\ [][ApplyParse]_vars

-----------------------------------------------------------------------------
(* GitMemoryStore: the memory directory, its git repository, the consolidating *)
(* caller and one external editor                                           *)

\* A category file: missing, or its content.  A list is in the form yaml.dump
\* gives it ("dump") or in another form with the same items ("hand").
NoFile == [kind |-> "missing", items |-> <<>>, style |-> "-"]
EmptyFile == [kind |-> "empty", items |-> <<>>, style |-> "-"]
MalformedFile == [kind |-> "malformed", items |-> <<>>, style |-> "-"]
NotListFile == [kind |-> "other", items |-> <<>>, style |-> "-"]
StrItem(text) == [kind |-> "str", text |-> text]
HandWritten(items) == [kind |-> "list", items |-> items, style |-> "hand"]

\* _write_yaml: yaml.dump of the entries
WriteYaml(entries) ==
    [kind |-> "list",
     items |-> [i \in 1..Len(entries) |-> StrItem(entries[i])],
     style |-> "dump"]

\* Mutant: what cannot be parsed is passed on as an entry.
ReadYamlUnguarded(file) ==
    IF file.kind = "missing" THEN <<>>
    ELSE IF file.kind = "list" THEN Entries(file.items)
    ELSE IF file.kind = "malformed" THEN <<"malformed">>
    ELSE <<>>

\* _read_yaml: [] for a missing file, for what is no list and when reading raises
ReadYaml(file) ==
    IF file.kind = "missing" THEN <<>>
    ELSE IF file.kind = "list" THEN Entries(file.items) ELSE <<>>

\* The files a long-term state may hold.
FileContents ==
    {NoFile, EmptyFile, MalformedFile, NotListFile, WriteYaml(<<>>), WriteYaml(<<"old">>),
     HandWritten(<<StrItem("old")>>), HandWritten(<<StrItem("old"), StrItem("")>>)}

\* git rev-parse HEAD: 0 is None (no commit yet), n the n-th commit.
GetCurrentHead == long_term.head

\* Mutant: the head is compared with None.
HasChangedSinceNone == GetCurrentHead # 0

HasChangedSinceLoad == GetCurrentHead # long_term.loaded_head

\* git add -A; git diff --cached --quiet; git commit: a commit is created when
\* the staged files differ from the tree of HEAD (the empty tree before the
\* first commit).
Commit(repo, files) ==
    IF files = repo.tree THEN repo
    ELSE [repo EXCEPT !.tree = files, !.head = @ + 1,
                      !.since = @ + 1]

\* What the consolidator gives back for the loaded entries.
Consolidated == [cat \in Categories |-> IF cat = "decisions" THEN <<"merged">> ELSE <<>>]

\* The repository is new (nothing committed) or holds one commit of the files.
InitLongTerm ==
    /\ ManagerConstructed
    /\ bound = Bounds(0, 0, 0, 0, 0, FALSE)
    /\ arg = <<>>
    /\ ret = <<>>
    /\ \E files \in [Categories -> FileContents] : \E committed \in BOOLEAN :
          long_term = [pc |-> "idle",
                       files |-> files,
                       tree |-> IF committed THEN files ELSE [cat \in Categories |-> NoFile],
                       head |-> IF committed THEN 1 ELSE 0,
                       loaded_head |-> 0,
                       memories |-> <<>>,
                       op |-> "init",
                       answer |-> <<>>,
                       created |-> FALSE,
                       unchanged |-> FALSE,
                       since |-> 0,
                       edited |-> {},
                       edits |-> 0]

LongTermFrame ==
    UNCHANGED <<coordinator, session, tasks, agent, next_id, n_system, n_manual,
                compressed_in, sys_log, last, bound, arg, ret>>

\* load_all: the head is snapshotted, then every category file is read.
LoadAll ==
    /\ long_term' = [long_term EXCEPT
                        !.pc = "loaded",
                        !.loaded_head = GetCurrentHead,
                        !.memories = <<[cat \in Categories |-> ReadYaml(long_term.files[cat])]>>,
                        !.op = "load_all",
                        !.answer = <<>>,
                        !.since = 0,
                        !.edited = {}]
    /\ LongTermFrame

\* The caller asks has_changed_since_load() before it writes, and loads again
\* when the answer is true.
CheckChanged ==
    /\ long_term.pc = "loaded"
    /\ long_term' = [long_term EXCEPT
                        !.pc = IF HasChangedSinceLoad THEN "stale" ELSE "checked",
                        !.op = "has_changed_since_load",
                        !.answer = <<HasChangedSinceLoad>>]
    /\ LongTermFrame

\* save_and_commit(memories, message) with the loaded entries or with the
\* consolidated ones: every category file is written, then staged and committed.
SaveAndCommit ==
    /\ long_term.pc = "checked"
    /\ \E memories \in {long_term.memories[1], Consolidated} :
          LET files == [cat \in Categories |-> WriteYaml(memories[cat])]
              repo == Commit(long_term, files)
          IN  long_term' = [repo EXCEPT
                               !.pc = "loaded",
                               !.files = files,
                               !.op = "save_and_commit",
                               !.answer = <<>>,
                               !.created = repo.head # long_term.head,
                               !.unchanged = (memories = long_term.memories[1])]
    /\ LongTermFrame

\* The external editor appends an entry to a category file and saves it.
ExternalEdit ==
    /\ long_term.edits < MaxEdits
    /\ \E cat \in Categories :
          LET file == long_term.files[cat]
              items == IF file.kind = "list" THEN file.items ELSE <<>>
          IN  long_term' = [long_term EXCEPT
                               !.files[cat] = HandWritten(Append(items, StrItem("edit"))),
                               !.op = "external_edit",
                               !.edited = @ \cup {cat},
                               !.edits = @ + 1]
    /\ LongTermFrame

\* The external editor (or the agent's shell) commits the directory.
ExternalCommit ==
    /\ long_term.head < MaxCommits
    /\ long_term.files # long_term.tree
    /\ long_term' = [Commit(long_term, long_term.files) EXCEPT !.op = "external_commit"]
    /\ LongTermFrame

NextLongTerm ==
    \/ LoadAll
    \/ CheckChanged
    \/ SaveAndCommit
    \/ ExternalEdit
    \/ ExternalCommit

SpecLongTerm == InitLongTerm /\ [][NextLongTerm]_vars

-----------------------------------------------------------------------------
(* LongTermMemory (src/memory/long_term.py): instances over one            *)
(* memories.yaml, and save() calls that overlap. An entry is the number of *)
(* the save() call that made it; entry 0 was in the file before.           *)

\* save() calls in flight at once
MaxSaves == 2

\* LongTermMemory objects over the directory: the shared one of a process
\* (tools/memory_tools.py) and the one of a second process.
Instances == 1..2

\* LongTermMemory.__init__: nothing loaded yet.
NewInstance == [memories |-> <<>>, loaded |-> FALSE]

\* An instance that went through _load() with this file.
LoadedInstance(file) == [memories |-> file, loaded |-> TRUE]

InitShared ==
    /\ ManagerConstructed
    /\ bound = Bounds(0, 0, 0, 0, 0, FALSE)
    /\ arg = <<>>
    /\ ret = <<>>
    /\ \E file \in {<<>>, <<0>>} :
       \E loaded \in [Instances -> BOOLEAN] :
       \E of \in [1..MaxSaves -> Instances] :
          long_term = [pc |-> "shared",
                       file |-> file,
                       instances |-> [i \in Instances |->
                                         IF loaded[i] THEN LoadedInstance(file)
                                         ELSE NewInstance],
                       saves |-> [t \in 1..MaxSaves |->
                                     [instance |-> of[t], at |-> "called", data |-> <<>>]]]

\* save() up to its first suspension: _load() returns at once when the
\* instance is loaded, the entry is appended and _save() awaits _ensure_dir();
\* otherwise _load() awaits the file.
SaveEnter(t) ==
    LET save == long_term.saves[t]
        self == long_term.instances[save.instance]
    IN  /\ save.at = "called"
        /\ long_term' =
              IF self.loaded
              THEN [long_term EXCEPT
                       !.instances[save.instance].memories = Append(@, t),
                       !.saves[t].at = "ensure_dir"]
              ELSE [long_term EXCEPT !.saves[t].at = "load"]
        /\ LongTermFrame

\* _load() resumes with the content of the file: _memories is replaced by
\* what was read, _loaded is set; save() appends its entry and _save() awaits
\* _ensure_dir().
LoadResume(t) ==
    LET save == long_term.saves[t]
    IN  /\ save.at = "load"
        /\ long_term' = [long_term EXCEPT
                            !.instances[save.instance] =
                                [memories |-> Append(long_term.file, t), loaded |-> TRUE],
                            !.saves[t].at = "ensure_dir"]
        /\ LongTermFrame

\* _save() resumes after _ensure_dir(): the whole of _memories is dumped, and
\* the open of the file is awaited.
SaveDump(t) ==
    LET save == long_term.saves[t]
    IN  /\ save.at = "ensure_dir"
        /\ long_term' = [long_term EXCEPT
                            !.saves[t].data = long_term.instances[save.instance].memories,
                            !.saves[t].at = "write"]
        /\ LongTermFrame

\* The file is opened with "w" and the dump written: save() returns.
SaveWrite(t) ==
    LET save == long_term.saves[t]
    IN  /\ save.at = "write"
        /\ long_term' = [long_term EXCEPT
                            !.file = save.data,
                            !.saves[t].at = "returned"]
        /\ LongTermFrame

NextShared ==
    \E t \in 1..MaxSaves :
        \/ SaveEnter(t)
        \/ LoadResume(t)
        \/ SaveDump(t)
        \/ SaveWrite(t)

SpecShared == InitShared /\ [][NextShared]_vars

-----------------------------------------------------------------------------
(* LongTermMemory.search and _calculate_score. Scores are kept in          *)
(* thirtieths of a point, so that days_old / 30 stays an integer.          *)

\* the divisor of days_old in the recency bonus
DECAY_DAYS == 30

\* one point of score
Point == DECAY_DAYS

\* entries in _memories when search() runs
MaxMemories == 3

\* str.lower() on the categories in use
Lower(s) == IF s \in {"Fact", "FACT"} THEN "fact" ELSE s

\* 4. Recency bonus: max(0, 10 - days_old / 30); created_at that
\* datetime.fromisoformat rejects (<<>>) adds nothing.
RecencyScore(memory) ==
    IF memory.days_old = <<>> THEN 0
    ELSE IF 10 * Point - memory.days_old[1] > 0
         THEN 10 * Point - memory.days_old[1] ELSE 0

\* _calculate_score: keyword matches (40 at most), the fuzzy or substring
\* match of the content (memory.fuzzy, 40 at most), the category bonus and the
\* recency bonus, capped at 100. The result holds the local recency_score too.
CalculateScore(memory, query_keywords) ==
    LET keyword_matches == Cardinality(memory.keywords \cap query_keywords)
        keyword_score == IF query_keywords # {}
                         THEN (keyword_matches * 40 * Point) \div Cardinality(query_keywords)
                         ELSE 0
        category_bonus == IF Lower(memory.category) \in query_keywords
                          THEN 10 * Point ELSE 0
        recency_score == RecencyScore(memory)
        score == keyword_score + memory.fuzzy * Point + category_bonus + recency_score
    IN  [score |-> IF score > 100 * Point THEN 100 * Point ELSE score,
         recency_score |-> recency_score]

\* results.sort(key=score, reverse=True): stable, equal scores keep their order
RECURSIVE InsertByScore(_, _)
InsertByScore(sorted, r) ==
    IF sorted = <<>> THEN <<r>>
    ELSE IF sorted[Len(sorted)].score >= r.score THEN Append(sorted, r)
    ELSE Append(InsertByScore(SubSeq(sorted, 1, Len(sorted) - 1), r), sorted[Len(sorted)])

RECURSIVE SortByScore(_)
SortByScore(results) ==
    IF results = <<>> THEN <<>>
    ELSE InsertByScore(SortByScore(SubSeq(results, 1, Len(results) - 1)),
                       results[Len(results)])

\* Mutant: the slice is not taken.
Unsliced(results, limit) == results

\* results[:limit] for limit >= 0
Slice(results, limit) ==
    SubSeq(results, 1, IF limit < Len(results) THEN limit ELSE Len(results))

\* the loop of search(): the category filter (None and "" filter nothing),
\* then the threshold
RECURSIVE Scored(_, _, _, _, _)
Scored(memories, i, query_keywords, category, min_score) ==
    IF i > Len(memories) THEN <<>>
    ELSE LET memory == memories[i]
             score == CalculateScore(memory, query_keywords).score
             rest == Scored(memories, i + 1, query_keywords, category, min_score)
         IN  IF /\ category # <<>>
                /\ category[1] # ""
                /\ Lower(memory.category) # Lower(category[1])
             THEN rest
             ELSE IF score >= min_score
                  THEN <<[memory |-> i, score |-> score]>> \o rest
                  ELSE rest

\* search(query, category, limit, min_score); a result names its memory by
\* its position in _memories.
Search(memories, query_keywords, category, limit, min_score) ==
    IF memories = <<>> THEN <<>>
    ELSE Slice(SortByScore(Scored(memories, 1, query_keywords, category, min_score)), limit)

\* Entries as save() and a file leave them.
StoredMemories ==
    {[category |-> "fact", keywords |-> {"deploy"}, fuzzy |-> 40, days_old |-> <<0>>],
     [category |-> "Fact", keywords |-> {}, fuzzy |-> 20, days_old |-> <<30>>],
     [category |-> "project", keywords |-> {"deploy"}, fuzzy |-> 0, days_old |-> <<300>>],
     [category |-> "project", keywords |-> {}, fuzzy |-> 0, days_old |-> <<400>>],
     [category |-> "Fact", keywords |-> {"deploy", "fact"}, fuzzy |-> 20, days_old |-> <<>>]}

RECURSIVE MemoryLists(_)
MemoryLists(n) ==
    IF n = 0 THEN {<<>>}
    ELSE LET shorter == MemoryLists(n - 1)
         IN  shorter \cup {Append(l, m) : l \in {s \in shorter : Len(s) = n - 1},
                                         m \in StoredMemories}

\* _extract_keywords(query) of the queries asked
QueryKeywords == {{}, {"deploy"}, {"deploy", "fact"}}

\* The tool passes None for no category and a limit it clamped (memory_tools.py).
SearchInputs ==
    [memories : MemoryLists(MaxMemories),
     query_keywords : QueryKeywords,
     category : {<<>>, <<"">>, <<"FACT">>, <<"project">>},
     limit : 0..MaxMemories,
     min_score : {0, 10 * Point, 50 * Point}]

InitSearch ==
    /\ Idle
    /\ arg \in SearchInputs

ApplySearch ==
    /\ ret = <<>>
    /\ ret' = <<Search(arg.memories, arg.query_keywords, arg.category, arg.limit,
                       arg.min_score)>>
    /\ UNCHANGED <<coordinator, session, tasks, agent, next_id, n_system, n_manual,
                   compressed_in, sys_log, last, long_term, bound, arg>>

SpecSearch == InitSearch /\ [][ApplySearch]_vars

\* _calculate_score of one entry of any age
ScoreInputs ==
    [memory : [category : {"fact", "Fact", "project"},
               keywords : {{}, {"deploy"}},
               fuzzy : {0, 40},
               days_old : {<<>>} \cup {<<d>> : d \in {0, 1, 15, 29, 30, 31, 299, 300, 301}}],
     query_keywords : QueryKeywords]

InitScore ==
    /\ Idle
    /\ arg \in ScoreInputs

ApplyScore ==
    /\ ret = <<>>
    /\ ret' = <<CalculateScore(arg.memory, arg.query_keywords)>>
    /\ UNCHANGED <<coordinator, session, tasks, agent, next_id, n_system, n_manual,
                   compressed_in, sys_log, last, long_term, bound, arg>>

SpecScore == InitScore /\ [][ApplyScore]_vars

-----------------------------------------------------------------------------
(* Properties *)

FullSplice == last.op = "splice_full"
PartialSplice == last.op = "splice_partial"
AnySplice == FullSplice \/ PartialSplice

\* C1: when a full compression completes successfully, the buffer is the
\* compressor's output for its snapshot followed by exactly the messages
\* appended behind the snapshot while the summariser call was in flight.
C1_SpliceKeepsLateMessages ==
    FullSplice =>
        short_term = CompressorMessages(last.task.snap, last.task.strategy)
                        \o last.task.late

\* C2: no message is silently dropped: every non-system message passed to
\* add_message is in the buffer or was given to a summariser call that
\* succeeded.  (Spec has no rollback and no reset, which remove on purpose.)
C2_NoMessageSilentlyDropped ==
    \A id \in 1..(next_id - 1) : id \in Ids(short_term) \/ id \in compressed_in

SummariserFailed == last.op = "compress_failed"
SummariserCancelled == last.op = "compress_cancelled"

\* C3 as stated: when the summariser call of a full or partial compression
\* raises or is cancelled, the coordinator's state is unchanged and compress()
\* reports it by returning no result.
C3_FailureKeepsStateAndReturnsNone ==
    [][(SummariserFailed' \/ SummariserCancelled')
          => (coordinator' = coordinator /\ last'.result = "none")]_vars

\* C3 amended: the state is unchanged in both cases; a raised exception is
\* reported by returning no result, a cancellation leaves compress() as
\* CancelledError.
C3_FailureKeepsState ==
    [][(SummariserFailed' \/ SummariserCancelled')
          => /\ coordinator' = coordinator
             /\ SummariserFailed' => last'.result = "none"
             /\ SummariserCancelled' => last'.result = "raised"]_vars

C3_Witness ==
    /\ SummariserFailed \/ SummariserCancelled
    /\ last.task.partial
    /\ last.task.late # <<>>
    /\ compression_count > 0

\* Every tool message is preceded by the assistant message whose tool call it
\* answers, and every assistant tool call is answered by a later tool message.
ToolPairingHolds(messages) ==
    /\ \A j \in 1..Len(messages) :
          messages[j].role = "tool" =>
             \E i \in 1..(j - 1) :
                messages[i].role = "assistant" /\ messages[j].tcid \in messages[i].calls
    /\ \A i \in 1..Len(messages) :
          \A c \in messages[i].calls :
             \E j \in (i + 1)..Len(messages) :
                messages[j].role = "tool" /\ messages[j].tcid = c

\* C4: compression never breaks tool pairing: if pairing holds over the buffer
\* the compression snapshotted, and over the buffer it is spliced into (tool
\* results may have arrived meanwhile), it holds over the buffer after the splice.
C4_SplicePreservesToolPairing ==
    [][(AnySplice' /\ ToolPairingHolds(last'.task.snap) /\ ToolPairingHolds(short_term))
          => ToolPairingHolds(short_term')]_vars

\* C5: get_context_for_llm() is exactly the system messages, in the order
\* they were added, followed by the buffer's messages in buffer order.
C5_ContextIsSystemThenBuffer ==
    LET context == GetContextForLLM
    IN  /\ Len(context) = Len(sys_log) + Len(short_term)
        /\ \A i \in 1..Len(sys_log) : context[i] = sys_log[i]
        /\ \A j \in 1..Len(short_term) : context[Len(sys_log) + j] = short_term[j]

C5_Witness ==
    /\ Len(system_messages) = 2
    /\ Len(short_term) >= 2
    /\ compression_count > 0
    /\ last.op = "rollback"
    /\ last.result = "removed"

\* C6: whenever no operation is in progress, current_tokens is
\* last_api_context_tokens + estimated_delta_tokens when the former is known,
\* and otherwise the sum of the estimates over system_messages and the buffer.
C6_CurrentTokensIsGrounded ==
    tasks = <<>> =>
        current_tokens =
            IF last_api_context_tokens # <<>>
            THEN last_api_context_tokens[1] + estimated_delta_tokens
            ELSE SumEstimates(system_messages) + SumEstimates(short_term)

C8_SpliceResetsGrounding ==
    AnySplice =>
        /\ last_api_context_tokens = <<>>
        /\ estimated_delta_tokens = 0
        /\ current_tokens = SumEstimates(system_messages) + SumEstimates(short_term)

C8_Witness ==
    /\ PartialSplice
    /\ last.task.late # <<>>
    /\ system_messages # <<>>
    /\ token_tracker.input > 0

\* C9: urgency is a strict priority order: none when disabled; else emergency
\* when the buffer is at or above the cap; else hard when T > H; else soft when
\* T > r * H; else none.  T = H is not hard and T = r * H is not soft.
C9_UrgencyPriorityOrder ==
    ret # <<>> =>
        LET u == ret[1]
            T == arg.tokens
            H == arg.threshold
            full == arg.count >= arg.cap
            aboveSoft == T * SOFT_RATIO_DEN > H * arg.num
        IN  /\ ~arg.enabled => u = NONE
            /\ (arg.enabled /\ full) => u = EMERGENCY
            /\ (arg.enabled /\ ~full /\ T > H) => u = HARD
            /\ (arg.enabled /\ ~full /\ T <= H /\ aboveSoft) => u = SOFT
            /\ (arg.enabled /\ ~full /\ T <= H /\ ~aboveSoft) => u = NONE
            /\ T = H => u # HARD
            /\ T * SOFT_RATIO_DEN = H * arg.num => u # SOFT

C9_Witness ==
    /\ ret = <<NONE>>
    /\ arg.enabled
    /\ arg.count < arg.cap
    /\ arg.tokens * SOFT_RATIO_DEN = arg.threshold * arg.num

\* C10: a non-zero split index k never splits a tool pair: both indices
\* of every pair are below k, or both are at or above k.
C10_SplitNeverSplitsPair ==
    (ret # <<>> /\ ret[1] # 0) =>
        \A p \in FindToolPairs(arg) :
            \/ p[1] < ret[1] /\ p[2] < ret[1]
            \/ p[1] >= ret[1] /\ p[2] >= ret[1]

C10_Witness ==
    /\ ret # <<>>
    /\ ret[1] > 0
    /\ ret[1] < Len(arg) \div 2
    /\ FindToolPairs(arg) # {}

\* A tool pair straddles index k unless both its indices are below k or both
\* are at or above k.
Straddles(p, k) == ~((p[1] < k /\ p[2] < k) \/ (p[1] >= k /\ p[2] >= k))

SafeSplits(messages) ==
    {k \in 1..(Len(messages) \div 2) :
        \A p \in FindToolPairs(messages) : ~Straddles(p, k)}

\* C11: the safe-split computation returns the largest index k with
\* 0 < k <= floor(len/2) that no tool pair straddles, and 0 exactly when there
\* is no such index (so for every list of fewer than 2 messages).
C11_SplitIsLargestSafeIndex ==
    ret # <<>> =>
        /\ SafeSplits(arg) # {} =>
               /\ ret[1] \in SafeSplits(arg)
               /\ \A k \in SafeSplits(arg) : k <= ret[1]
        /\ SafeSplits(arg) = {} <=> ret[1] = 0
        /\ Len(arg) < 2 => ret[1] = 0

C11_Witness ==
    /\ ret = <<0>>
    /\ Len(arg) >= 4
    /\ arg[Len(arg)].role = "user"

\* A compression has just been started, by add_message or by compress().
CompressionStarted == last.op \in {"add_message", "compress"} /\ last.task # NoTask

\* C12: with urgency soft, more than 4 buffered messages and a safe split k
\* with 0 < k < length, only messages[:k] go to the summariser, and after
\* success the buffer is the compressor's output for that prefix, then
\* messages[k:] unchanged and in order, then the messages appended during the
\* summariser call; otherwise the whole buffer is compressed (a full compression).
C12_SoftCompressesPrefixOnly ==
    /\ CompressionStarted =>
          LET msgs == last.task.snap
              k == FindSafeSplitPoint(msgs)
          IN  IF last.urgency = SOFT /\ Len(msgs) > 4 /\ k > 0 /\ k < Len(msgs)
              THEN /\ last.task.partial
                   /\ CompressorInput(last.task) = SubSeq(msgs, 1, k)
              ELSE /\ ~last.task.partial
                   /\ CompressorInput(last.task) = msgs
    /\ PartialSplice =>
          LET msgs == last.task.snap
              k == last.task.split
          IN  short_term =
                  CompressorMessages(SubSeq(msgs, 1, k), last.task.strategy)
                     \o SubSeq(msgs, k + 1, Len(msgs))
                     \o last.task.late

\* C13: the mutating operations are serialised on one instance: at most one
\* compression is in flight at any time, so no compress begins while another
\* compress on the same coordinator awaits the summariser.
C13_AtMostOneCompressionInFlight == Len(tasks) <= 1

\* C14: after a failed compression the coordinator continues and retries: the
\* next add_message of a non-system message appends its message, evaluates
\* urgency on the state with that message and, when urgency is not none,
\* starts a compression of the buffer as it then is; when the summariser call
\* of a compression started by add_message succeeds, the splice completes
\* (the compression is counted and, the buffer still being the snapshot and
\* what was appended behind it, the buffer becomes the output and those).
C14_RetryAfterFailure ==
    [][/\ (SummariserFailed /\ last'.op = "add_message") =>
             LET u == GetCompressionUrgency(MEMORY_ENABLED, MEMORY_SHORT_TERM_SIZE,
                                            MEMORY_COMPRESSION_THRESHOLD,
                                            SOFT_RATIO_NUM, SOFT_RATIO_DEN,
                                            Len(short_term'), current_tokens')
             IN  /\ short_term' = Append(short_term, last'.msg)
                 /\ last'.urgency = u
                 /\ u = NONE => Len(tasks') = Len(tasks)
                 /\ u # NONE =>
                       /\ Len(tasks') = Len(tasks) + 1
                       /\ tasks'[Len(tasks')].snap = short_term'
                       /\ tasks'[Len(tasks')].late = <<>>
       /\ AnySplice' =>
             /\ compression_count' = compression_count + 1
             /\ was_compressed_last_iteration'
             /\ Len(tasks') = Len(tasks) - 1
             /\ short_term = last'.task.snap \o last'.task.late =>
                   short_term' =
                       CompressorMessages(CompressorInput(last'.task), last'.task.strategy)
                          \o SubSeq(last'.task.snap, Len(CompressorInput(last'.task)) + 1,
                                     Len(last'.task.snap))
                          \o last'.task.late]_vars

\* A compression started by the add_message that followed a failed one has
\* spliced, with a message appended while its summariser call was in flight.
C14_Witness ==
    /\ AnySplice
    /\ last.task.retry
    /\ last.task.late # <<>>
    /\ short_term # <<>>

\* The tool-pair invariant: every tool_call id of every assistant message is
\* answered by a later tool message before the next assistant message.
TurnsComplete(messages) ==
    \A i \in 1..Len(messages) :
        \A c \in messages[i].calls :
            \E j \in (i + 1)..Len(messages) :
                /\ messages[j].role = "tool"
                /\ messages[j].tcid = c
                /\ \A k \in (i + 1)..(j - 1) : messages[k].role # "assistant"

\* A buffer left by an interrupted turn: complete turns, then an assistant
\* message with tool_calls followed by none or only some of its tool results.
InterruptedTurn(messages) ==
    \E i \in 1..Len(messages) :
        /\ messages[i].role = "assistant"
        /\ messages[i].calls # {}
        /\ \A j \in (i + 1)..Len(messages) :
               messages[j].role = "tool" /\ messages[j].tcid \in messages[i].calls
        /\ {messages[j].tcid : j \in (i + 1)..Len(messages)} # messages[i].calls
        /\ TurnsComplete(SubSeq(messages, 1, i - 1))

Rollback == last.op = "rollback"

\* C15: after one call of rollback_incomplete_exchange on a buffer left by an
\* interrupted turn (none or only some of the tool results appended), the
\* tool-pair invariant holds over the remaining buffer.
C15_RollbackRestoresToolPairs ==
    [][(Rollback' /\ InterruptedTurn(short_term)) => TurnsComplete(short_term')]_vars

\* C16: rollback_incomplete_exchange removes exactly the last buffer message
\* when that message is an assistant message carrying tool_calls, and nothing
\* otherwise; all earlier buffer messages, system_messages, the cumulative
\* usage counters and compression_count are unchanged.
C16_RollbackRemovesOnlyLastAssistantCall ==
    [][Rollback' =>
         LET n == Len(short_term)
             applies == /\ n > 0
                        /\ short_term[n].role = "assistant"
                        /\ short_term[n].calls # {}
         IN  /\ applies => short_term' = SubSeq(short_term, 1, n - 1)
             /\ ~applies => short_term' = short_term
             /\ system_messages' = system_messages
             /\ token_tracker' = token_tracker
             /\ compression_count' = compression_count]_vars

C16_Witness ==
    /\ Rollback
    /\ last.result = "removed"
    /\ short_term # <<>>
    /\ short_term[Len(short_term)].role = "user"
    /\ system_messages # <<>>
    /\ token_tracker.input > 0

\* C17: rollback_incomplete_exchange is idempotent: calling it twice in a row
\* leaves the coordinator in the same state as calling it once.
C17_RollbackIdempotent ==
    [][(Rollback /\ Rollback') => coordinator' = coordinator]_vars

\* C18: a session is created lazily and only by the first add_message of a
\* non-system message: constructing the coordinator, calling save_memory, or
\* adding only system-role messages never invokes create_session.
C18_SessionCreatedByFirstNonSystemMessage ==
    /\ store.created > 0 => next_id > 1
    /\ store.created <= 1

Saved == last.op = "save_memory"

\* C19: save_memory performs no store write when no session has been created
\* or when both the buffer and system_messages are empty; a coordinator that is
\* constructed and then only saved never creates or writes a session.
C19_SaveSkipsWithoutSessionOrContent ==
    [][/\ (Saved' /\ (~session_created \/ (short_term = <<>> /\ system_messages = <<>>)))
             => /\ store'.file = store.file
                /\ store'.created = store.created
                /\ last'.result = "skipped"
       /\ (next_id' = 1 /\ n_system' = 0)
             => /\ store'.created = 0
                /\ store'.file = <<>>
                /\ ~session_created']_vars

\* A session exists and was written, the coordinator was emptied, and a
\* save_memory call has returned without writing.
C19_Witness ==
    /\ Saved
    /\ last.result = "skipped"
    /\ session_created
    /\ store.file # <<>>
    /\ short_term = <<>>
    /\ system_messages = <<>>

Loading == last.op = "from_session"

Normalised(context) ==
    [i \in 1..Len(context) |-> [context[i] EXCEPT !.empty_calls = FALSE]]

C21_LoadRestoresUsageStats ==
    [][(Saved /\ last.result = "written" /\ Loading' /\ last'.result = "loaded")
            => /\ token_tracker'.input = token_tracker.input
               /\ token_tracker'.output = token_tracker.output
               /\ compression_count' = compression_count]_vars

\* C22: a request to load a session id that does not exist is answered with an
\* absent (null) result and is never raised as an error to the caller.
C22_MissingSessionIsNotRaised ==
    [][(Loading' /\ store.created = 0) => last'.result # "ValueError"]_vars

\* C23: the short-term buffer never evicts: after any sequence of appends with
\* no removal or clear, messages() is exactly the appended sequence in insertion
\* order even when the count exceeds the cap, and in every state is_full() is
\* true exactly when the message count is at or above the cap.
C23_BufferNeverEvicts ==
    ret # <<>> =>
        /\ ret[1].is_full = (Len(short_term) >= MEMORY_SHORT_TERM_SIZE)
        /\ ret[1].count = Len(short_term)
        /\ ~arg.removed => ret[1].messages = arg.appended

\* More messages than the cap were appended, nothing was removed, and the
\* buffer was read.
C23_Witness ==
    /\ ret # <<>>
    /\ ~arg.removed
    /\ Len(arg.appended) > MEMORY_SHORT_TERM_SIZE
    /\ ret[1].is_full
    /\ ret[1].messages = arg.appended

\* C24: with N_cap = 4, H = 100 and a summariser that returns "SUMMARY", adding
\* five non-tool messages whose estimates total 150 tokens results, after the
\* fifth add_message, in compression_count = 1, compression_savings > 0 and a
\* buffer that starts with a summary message followed by the preserved tail.
C24_ScenarioCompressesOnce ==
    (next_id = ScenarioMsgs + 1 /\ tasks = <<>> /\ token_tracker.input = 0) =>
        /\ compression_count = 1
        /\ token_tracker.savings > 0
        /\ short_term # <<>>
        /\ short_term[1].summary
        /\ \A i \in 2..Len(short_term) : ~short_term[i].summary

Present(data) == {cat \in Categories : data.cats[cat].kind # "absent"}

C26_UnparsableFallsBackToOriginal ==
    (ret # <<>> /\ arg.data.kind # "mapping") => ret[1] = arg.original

C26_Witness ==
    /\ ret # <<>>
    /\ arg.data.kind = "null"
    /\ \E cat \in Categories : arg.original[cat] # <<>>
    /\ ret[1] = arg.original

\* C27: a consolidation response of any shape other than a mapping whose
\* top-level keys are all known category names (each holding a list) causes
\* fallback to the original: a mapping with a key that is not a known category,
\* or with a known category whose value is not a list, yields the original
\* entries unchanged for every category.
C27_OtherShapeFallsBackToOriginal ==
    (/\ ret # <<>>
     /\ arg.data.kind = "mapping"
     /\ \/ arg.data.extra
        \/ \E cat \in Categories : arg.data.cats[cat].kind = "other")
        => ret[1] = arg.original

\* C28: load_all followed by save_and_commit of the loaded mapping creates no
\* new commit when no entries changed, for every long-term state including one
\* where some category files are missing or empty.
C28_LoadThenSaveCreatesNoCommit ==
    (/\ long_term.op = "save_and_commit"
     /\ long_term.unchanged
     /\ long_term.edited = {})
        => ~long_term.created

Loaded == long_term.memories # <<>>

\* C29: has_changed_since_load() is true exactly when the repository head
\* differs from the head snapshotted by the most recent load_all: it is false
\* immediately after load_all and stays false until some commit is created, and
\* it becomes true after any commit, including one created by the same
\* store's save_and_commit.
C29_ChangedIffCommitSinceLoad ==
    Loaded =>
        /\ HasChangedSinceLoad = (long_term.since > 0)
        /\ long_term.op = "load_all" => ~HasChangedSinceLoad
        /\ (long_term.op = "save_and_commit" /\ long_term.created) => HasChangedSinceLoad
        /\ long_term.op = "has_changed_since_load" =>
              long_term.answer = <<HasChangedSinceLoad>>

\* The store's own save_and_commit has created a commit, and the caller has
\* asked has_changed_since_load() afterwards.
C29_Witness ==
    /\ Loaded
    /\ long_term.op = "has_changed_since_load"
    /\ long_term.answer = <<TRUE>>
    /\ long_term.created
    /\ long_term.since = 1
    /\ long_term.edited = {}

\* C30: long-term store writes are safe against one concurrent external
\* editor: an edit made to a category file between load_all and
\* save_and_commit is either detected (has_changed_since_load is true and the
\* entries are loaded again before writing) or is still present after
\* save_and_commit; a consolidation result computed from a stale load never
\* overwrites it.
C30_ExternalEditSurvivesSave ==
    long_term.op = "save_and_commit" =>
        \A cat \in long_term.edited :
            \E i \in 1..Len(long_term.files[cat].items) :
                long_term.files[cat].items[i] = StrItem("edit")

\* C31: reading the category files never raises because of file content: a
\* missing file, an empty file, a file that is not valid YAML and a file whose
\* YAML is not a list each yield the empty list for that category, and the
\* other categories are still read.
C31_UnreadableFileReadsAsEmpty ==
    long_term.op = "load_all" =>
        \A cat \in Categories :
            long_term.memories[1][cat] =
                IF long_term.files[cat].kind = "list"
                THEN Entries(long_term.files[cat].items)
                ELSE <<>>

\* load_all has read a directory with a file that is not valid YAML, a missing
\* file and a file with an entry.
C31_Witness ==
    /\ long_term.op = "load_all"
    /\ long_term.files["decisions"] = MalformedFile
    /\ long_term.files["preferences"] = NoFile
    /\ long_term.memories[1]["decisions"] = <<>>
    /\ long_term.memories[1]["facts"] = <<"old">>

Holds(entries, t) == \E i \in 1..Len(entries) : entries[i] = t

\* C32: when save() calls on the long-term memory overlap (on one instance,
\* the first load included, or on two instances over one directory), after
\* all of them returned every saved entry is in the memory of its instance
\* and in the file. Violated: there is no lock; a _load() that resumes late
\* replaces _memories, and each instance writes its own list over the file.
C32_NoSavedEntryIsLost ==
    (\A t \in 1..MaxSaves : long_term.saves[t].at = "returned") =>
        \A t \in 1..MaxSaves :
            /\ Holds(long_term.file, t)
            /\ Holds(long_term.instances[long_term.saves[t].instance].memories, t)

\* the entry at position i passes the category filter and the threshold
Qualifies(i) ==
    /\ (arg.category # <<>> /\ arg.category[1] # "") =>
           Lower(arg.memories[i].category) = Lower(arg.category[1])
    /\ CalculateScore(arg.memories[i], arg.query_keywords).score >= arg.min_score

\* C33: search returns at most limit results, each with its entry's score and
\* that score >= min_score, ordered by score descending, each of the category
\* asked for when one is given (compared without case); the results are as
\* many as qualify, up to limit, and no entry left out outranks a result.
C33_SearchReturnsTopN ==
    ret # <<>> =>
        LET results == ret[1]
            returned == {results[k].memory : k \in 1..Len(results)}
            qualifying == {i \in 1..Len(arg.memories) : Qualifies(i)}
        IN  /\ Len(results) <= arg.limit
            /\ Cardinality(returned) = Len(results)
            /\ returned \subseteq qualifying
            /\ \A k \in 1..Len(results) :
                  results[k].score =
                      CalculateScore(arg.memories[results[k].memory], arg.query_keywords).score
            /\ \A k \in 1..Len(results) - 1 : results[k].score >= results[k + 1].score
            /\ Len(results) = IF Cardinality(qualifying) < arg.limit
                              THEN Cardinality(qualifying) ELSE arg.limit
            /\ \A i \in qualifying \ returned : \A k \in 1..Len(results) :
                  CalculateScore(arg.memories[i], arg.query_keywords).score <= results[k].score

C33_Witness ==
    /\ ret # <<>>
    /\ Len(arg.memories) = 3
    /\ arg.category = <<"FACT">>
    /\ arg.limit = 1
    /\ arg.min_score = 10 * Point
    /\ Len(ret[1]) = 1
    /\ ret[1][1].memory = 3
    /\ arg.memories[3].category = "fact"
    /\ arg.memories[1].category = "project"
    /\ arg.memories[2].category = "Fact"
    /\ Qualifies(2)

\* C34: the recency bonus is at most 10 points and decays linearly to 0 over
\* 30 days: 10 for an entry created today, none for one 30 or more days old.
\* Violated: the bonus is max(0, 10 - days_old / 30), a thirtieth of a point
\* per day, so it is 9 points at 30 days and reaches 0 at 300 days.
C34_RecencyDecaysOverThirtyDays ==
    (ret # <<>> /\ arg.memory.days_old # <<>>) =>
        /\ ret[1].recency_score <= 10 * Point
        /\ arg.memory.days_old[1] = 0 => ret[1].recency_score = 10 * Point
        /\ arg.memory.days_old[1] >= 30 => ret[1].recency_score = 0

\* create_session() calls that returned an id
SessionsCreated == store.created - Len(store.creating) - store.failed

\* C35: under any interleaving of add_message calls a coordinator has
\* create_session return a session at most once, and never calls it when it
\* was constructed with a session id; save_memory then has one id to write to.
\* Violated: _session_created is tested before the await of create_session()
\* and set after it, so two calls that overlap there each create a session.
C35_SessionCreatedAtMostOnce ==
    /\ SessionsCreated <= 1
    /\ arg # <<>> => (store.created = 0 /\ session_id = arg)
    /\ (last.op = "save_memory" /\ last.result = "written") =>
           session_id \in {arg, <<1>>}

\* C38: when create_session fails, add_message raises without appending the
\* message to system_messages or the buffer and without changing a token
\* counter, and the session fields stay as they were: a coordinator without a
\* session is still without one, so the next add_message creates one.
C38_FailedCreateLeavesNoTrace ==
    [][store'.failed > store.failed =>
          /\ last'.result = "RuntimeError"
          /\ UNCHANGED <<coordinator, session_id, session_created, sys_log>>
          /\ ~session_created => (~session_created' /\ session_id' = <<>>)]_vars

C38_Witness ==
    /\ store.failed = 1
    /\ store.created = 2
    /\ store.creating = <<>>
    /\ session_created
    /\ session_id = <<2>>
    /\ Len(short_term) = 1

\* C36: a message removed by rollback_incomplete_exchange never reappears in
\* the buffer, also when a compression that snapshotted it was awaiting the
\* summariser at the time of the rollback. Where messages leave the buffer
\* only by a rollback or by being summarised: a step brings into the buffer
\* no message other than the one it adds, a summary, or one that was given to
\* the summariser before. Violated: the splice writes back the messages it
\* kept from its snapshot.
C36_RolledBackMessageStaysOut ==
    [][\A id \in Ids(short_term') \ Ids(short_term) :
          \/ id = SummaryMessage.id
          \/ id \in compressed_in
          \/ (last'.op = "add_message" /\ last'.msg.id = id)]_vars

Cleared ==
    /\ short_term = <<>>
    /\ system_messages = <<>>
    /\ compression_count = 0
    /\ current_tokens = 0
    /\ token_tracker = TrackerZero
    /\ last_compression_savings = 0
    /\ last_api_context_tokens = <<>>
    /\ estimated_delta_tokens = 0

\* C37: after reset() the buffer and system_messages are empty,
\* compression_count and the token counters are zero and the API-grounded
\* counters are cleared, and this stays so until the next add_message, also
\* when a compression was awaiting the summariser at the reset. Violated:
\* the splice of that compression counts itself and writes its output into
\* the buffer.
C37_ResetStateLastsUntilNextAdd ==
    [][/\ last'.op = "reset" => Cleared'
       /\ (Cleared /\ last'.op \notin {"add_message", "add_system"}) => Cleared']_vars

C40_RemovalTakesExactlyTheEnds ==
    arg.op \in {"remove_first", "remove_last"} =>
        LET n == Len(arg.before)
            c == IF arg.count < n THEN arg.count ELSE n
        IN  /\ arg.op = "remove_first" =>
                  /\ short_term = SubSeq(arg.before, c + 1, n)
                  /\ arg.returned = <<SubSeq(arg.before, 1, c)>>
            /\ arg.op = "remove_last" => short_term = SubSeq(arg.before, 1, n - c)
            /\ (arg.count = 0 \/ n = 0) => short_term = arg.before
            /\ arg.held = arg.read

\* remove_first(2) on three messages, of which a copy had been read.
C40_Witness ==
    /\ arg.op = "remove_first"
    /\ arg.count = 2
    /\ Len(arg.before) = 3
    /\ arg.before[2].role # arg.before[3].role
    /\ short_term = <<arg.before[3]>>
    /\ arg.held = <<arg.before>>

=============================================================================
